---- MODULE Spec2Model ----
(***************************************************************************)
(* Model of the floor-plan extraction scripts scripts/cad_processor.py     *)
(* (class CADProcessor) and scripts/image_processor.py (class              *)
(* ImageProcessor).                                                        *)
(*                                                                         *)
(* Number representation.  Drawing coordinates are integers.  The code     *)
(* multiplies by 0.1 (padding) and by unit factors such as 0.0254, so      *)
(*   - the four fields of a bounds dictionary are held in TENTHS of a      *)
(*     drawing unit (the default maxX = 100 is 1000 tenths);               *)
(*   - the scale factor is held in units of 1/ScaleDen (1.0 is ScaleDen).  *)
(* float('inf') is the sentinel Inf, larger than any coordinate.           *)
(***************************************************************************)
EXTENDS Integers, Sequences, FiniteSets, TLC

VARIABLES
    cls,      \* class of the current processor object: "CADProcessor" | "ImageProcessor" | "none"
    self,     \* its instance fields: entities, layers, bounds, scale, units, blocks
    calls,    \* number of process_* calls made on the current processor object
    inp,      \* the source handed to the last process_* call
    out       \* what the last process_* call gave back: a Result or a terminal error

vars == <<cls, self, calls, inp, out>>

----------------------------------------------------------------------------
(* Bounds of the model *)

MaxObjs == 2        \* objects in model space
MaxBlockObjs == 1   \* member objects of one block
MaxCalls == 2       \* process_* calls on one processor object (SpecReuse)
MaxContours == 1    \* contours found in one raster image
MaxSegments == 1    \* line segments found in one PDF page

----------------------------------------------------------------------------
(* Numbers *)

Inf == 1000000
ScaleDen == 10000

Min(S) == CHOOSE x \in S : \A y \in S : x <= y
Max(S) == CHOOSE x \in S : \A y \in S : x >= y

\* v (drawing units, possibly +-inf) in tenths
Tenths(v) == IF v >= Inf THEN Inf ELSE IF v <= -Inf THEN -Inf ELSE 10 * v

\* IEEE addition and subtraction of values in tenths, of which the code only
\* meets inf - (-inf), (-inf) - inf, (-inf) + (-inf) and finite cases
FAdd(a, b) ==
    IF a >= Inf \/ b >= Inf THEN Inf
    ELSE IF a <= -Inf \/ b <= -Inf THEN -Inf
    ELSE a + b

FSub(a, b) == FAdd(a, IF b >= Inf THEN -Inf ELSE IF b <= -Inf THEN Inf ELSE -b)

\* (max_x - min_x) * 0.1, in tenths, from max_x and min_x in drawing units
Padding(max_x, min_x) ==
    IF max_x <= -Inf \/ min_x >= Inf THEN -Inf ELSE max_x - min_x

SeqToSet(s) == {s[i] : i \in 1..Len(s)}

SeqsUpTo(S, n) == UNION {[1..k -> S] : k \in 0..n}

\* every order in which the elements of the set S can be listed
Orders(S) == {s \in [1..Cardinality(S) -> S] : SeqToSet(s) = S}

----------------------------------------------------------------------------
(* Source objects: what the vector-document reader exposes for one drawing  *)
(* object.  `has` is the set of dxf attributes the object carries           *)
(* (hasattr(entity.dxf, a)); reading an attribute that is not in `has`      *)
(* raises.                                                                  *)

BlankObject ==
    [type |-> "", has |-> {}, layer |-> "", start |-> <<0, 0>>, end |-> <<0, 0>>,
     center |-> <<0, 0>>, radius |-> 0, start_angle |-> 0, end_angle |-> 0,
     insert |-> <<0, 0>>, name |-> "", rotation |-> 0, xscale |-> 1, yscale |-> 1,
     text |-> "", height |-> 1, points |-> <<>>, closed |-> FALSE]

Line0 ==
    [BlankObject EXCEPT !.type = "LINE", !.has = {"layer", "start", "end"},
                        !.layer = "0", !.start = <<0, 0>>, !.end = <<10, 0>>]
\* a LINE that lacks its end point
LineNoEnd ==
    [BlankObject EXCEPT !.type = "LINE", !.has = {"layer", "start"},
                        !.layer = "DOOR", !.start = <<3, 4>>]
LineDoor ==
    [BlankObject EXCEPT !.type = "LINE", !.has = {"layer", "start", "end"},
                        !.layer = "DOOR", !.start = <<-20, 30>>, !.end = <<-20, 40>>]
Circle0 ==
    [BlankObject EXCEPT !.type = "CIRCLE", !.has = {"layer", "center", "radius"},
                        !.layer = "0", !.center = <<5, 5>>, !.radius = 2]
\* an ARC without a layer attribute
ArcNoLayer ==
    [BlankObject EXCEPT !.type = "ARC",
                        !.has = {"center", "radius", "start_angle", "end_angle"},
                        !.center = <<12, 1>>, !.radius = 3,
                        !.start_angle = 0, !.end_angle = 90]
\* a CIRCLE that lacks its radius
CircleNoRadius ==
    [BlankObject EXCEPT !.type = "CIRCLE", !.has = {"layer", "center"},
                        !.layer = "WALLS", !.center = <<50, 50>>]
LwPoly ==
    [BlankObject EXCEPT !.type = "LWPOLYLINE", !.has = {"layer"}, !.layer = "DOOR",
                        !.points = <<<<0, 0>>, <<4, 0>>, <<4, 7>>>>, !.closed = TRUE]
Poly ==
    [BlankObject EXCEPT !.type = "POLYLINE", !.has = {"layer"}, !.layer = "0",
                        !.points = <<<<1, 1>>, <<2, 9>>>>]
Text0 ==
    [BlankObject EXCEPT !.type = "TEXT", !.has = {"layer", "insert", "text"},
                        !.layer = "0", !.insert = <<6, 6>>, !.text = "Room"]
InsertDoor ==
    [BlankObject EXCEPT !.type = "INSERT",
                        !.has = {"layer", "insert", "name", "rotation"},
                        !.layer = "0", !.insert = <<2, 3>>, !.name = "DOOR",
                        !.rotation = 90]
\* types the dispatch of _process_entity has no branch for
Spline ==
    [BlankObject EXCEPT !.type = "SPLINE", !.has = {"layer"}, !.layer = "DOOR"]
Hatch ==
    [BlankObject EXCEPT !.type = "HATCH", !.has = {"layer"}, !.layer = "0"]

\* the objects a model space is drawn from
ObjectPool ==
    {Line0, LineNoEnd, Circle0, ArcNoLayer, LwPoly, InsertDoor, Text0, Spline, Hatch}

\* the objects a block is drawn from; LineDoor lies on a layer named like a block
BlockObjectPool == {LineDoor, Circle0, CircleNoRadius, Poly}

\* the block names of a document: one named block and one anonymous block
BlockNames == {"DOOR", "*U1"}

\* the $INSUNITS header values of a document; NoInsUnits: the header lacks it
NoInsUnits == -1
InsUnitsCodes == {NoInsUnits, 0, 1, 2, 3, 4, 5, 6, 7, 14, 99}

\* block_name.startswith('*'), over the names of the model (TLC cannot look
\* into a string)
StartsWithStar(name) == name \in {"*U1"}

\* the order in which doc.blocks.items() yields the blocks
BlockOrder == <<"DOOR", "*U1">>

\* the blocks sections: the named block holds up to MaxBlockObjs members, the
\* anonymous block none or one
BlockSections ==
    {[n \in BlockNames |-> IF StartsWithStar(n) THEN a ELSE m] :
        a \in {<<>>, <<LineDoor>>}, m \in SeqsUpTo(BlockObjectPool, MaxBlockObjs)}

\* the parsed documents: every geometry under one header value, and every
\* header value with two geometries
Documents ==
    [msp : SeqsUpTo(ObjectPool, MaxObjs), blocks : BlockSections, insunits : {4}]
    \cup
    [msp : {<<>>, <<Line0>>},
     blocks : {[b \in BlockNames |-> <<>>]},
     insunits : InsUnitsCodes]

----------------------------------------------------------------------------
(* CADProcessor *)

NoProperties == [k \in {} |-> 0]
NoBlocks == [k \in {} |-> <<>>]

DefaultBounds == [minX |-> 0, minY |-> 0, maxX |-> 1000, maxY |-> 1000]

\* CADProcessor.__init__; stderr is the diagnostics stream of the run, not a field
CADProcessor_init ==
    [entities |-> <<>>, layers |-> {}, bounds |-> DefaultBounds,
     scale |-> ScaleDen, units |-> "m", blocks |-> NoBlocks, stderr |-> <<>>]

\* the dxf attributes the branch of _process_entity for this type reads
\* without a hasattr guard
RequiredAttrs(type) ==
    CASE type = "LINE" -> {"start", "end"}
      [] type = "CIRCLE" -> {"center", "radius"}
      [] type = "ARC" -> {"center", "radius", "start_angle", "end_angle"}
      [] type = "INSERT" -> {"insert", "name"}
      [] type \in {"TEXT", "MTEXT"} -> {"insert"}
      [] OTHER -> {}

\* the try block of _process_entity raises on this object
Raises(e) == ~(RequiredAttrs(e.type) \subseteq e.has)

EntityLayer(e) == IF "layer" \in e.has THEN e.layer ELSE "DEFAULT"

\* EntityCoordinates with the end point of a LINE left out
EntityCoordinates_line_start_only(e) ==
    CASE e.type = "LINE" -> <<e.start>>
      [] e.type \in {"LWPOLYLINE", "POLYLINE"} -> e.points
      [] e.type \in {"CIRCLE", "ARC"} -> <<e.center>>
      [] e.type \in {"INSERT", "TEXT", "MTEXT"} -> <<e.insert>>
      [] OTHER -> <<>>

EntityCoordinates(e) ==
    CASE e.type = "LINE" -> <<e.start, e.end>>
      [] e.type \in {"LWPOLYLINE", "POLYLINE"} -> e.points
      [] e.type \in {"CIRCLE", "ARC"} -> <<e.center>>
      [] e.type \in {"INSERT", "TEXT", "MTEXT"} -> <<e.insert>>
      [] OTHER -> <<>>

EntityProperties(e) ==
    CASE e.type \in {"LWPOLYLINE", "POLYLINE"} ->
            IF e.closed THEN [closed |-> TRUE] ELSE NoProperties
      [] e.type = "CIRCLE" -> [radius |-> e.radius]
      [] e.type = "ARC" ->
            [radius |-> e.radius, start_angle |-> e.start_angle,
             end_angle |-> e.end_angle]
      [] e.type = "INSERT" ->
            [block_name |-> e.name,
             rotation |-> IF "rotation" \in e.has THEN e.rotation ELSE 0,
             x_scale |-> IF "xscale" \in e.has THEN e.xscale ELSE 1,
             y_scale |-> IF "yscale" \in e.has THEN e.yscale ELSE 1]
      [] e.type \in {"TEXT", "MTEXT"} ->
            [text |-> IF "text" \in e.has THEN e.text ELSE "",
             height |-> IF "height" \in e.has THEN e.height ELSE 1,
             rotation |-> IF "rotation" \in e.has THEN e.rotation ELSE 0]
      [] OTHER -> NoProperties

\* entity_data as it stands when _process_entity appends it
EntityData(e, is_block) ==
    [type |-> e.type, layer |-> EntityLayer(e),
     coordinates |-> EntityCoordinates(e), properties |-> EntityProperties(e),
     is_block |-> is_block]

\* self.blocks[key].append(data), creating the list when the key is new
BlocksAppend(blocks, key, data) ==
    [k \in DOMAIN blocks \cup {key} |->
        IF k = key
        THEN (IF key \in DOMAIN blocks THEN Append(blocks[key], data) ELSE <<data>>)
        ELSE blocks[k]]

\* self.blocks[key] = []
BlocksReset(blocks, key) ==
    [k \in DOMAIN blocks \cup {key} |-> IF k = key THEN <<>> ELSE blocks[k]]

\* _process_entity with the append moved out of the try block: an object that
\* raised is appended as far as its entity_data got
_process_entity_append_after_except(s, e, is_block) ==
    LET s1 == [s EXCEPT !.layers = @ \cup {EntityLayer(e)}]
        s2 == IF Raises(e) THEN [s1 EXCEPT !.stderr = Append(@, e.type)] ELSE s1
        data == [type |-> e.type, layer |-> EntityLayer(e), coordinates |-> <<>>,
                 properties |-> NoProperties, is_block |-> is_block]
        entity_data == IF Raises(e) THEN data ELSE EntityData(e, is_block)
    IN  IF is_block
        THEN [s2 EXCEPT !.blocks = BlocksAppend(@, EntityLayer(e), entity_data)]
        ELSE [s2 EXCEPT !.entities = Append(@, entity_data)]

\* _process_entity appending every entity to self.entities, block members too
_process_entity_block_members_top_level(s, e, is_block) ==
    LET s1 == [s EXCEPT !.layers = @ \cup {EntityLayer(e)}]
    IN  IF Raises(e)
        THEN [s1 EXCEPT !.stderr = Append(@, e.type)]
        ELSE IF is_block
        THEN [s1 EXCEPT !.blocks = BlocksAppend(@, EntityLayer(e), EntityData(e, TRUE)),
                        !.entities = Append(@, EntityData(e, TRUE))]
        ELSE [s1 EXCEPT !.entities = Append(@, EntityData(e, FALSE))]

_process_entity(s, e, is_block) ==
    LET s1 == [s EXCEPT !.layers = @ \cup {EntityLayer(e)}]
    IN  IF Raises(e)
        THEN [s1 EXCEPT !.stderr = Append(@, e.type)]
        ELSE IF is_block
        THEN [s1 EXCEPT !.blocks = BlocksAppend(@, EntityLayer(e), EntityData(e, TRUE))]
        ELSE [s1 EXCEPT !.entities = Append(@, EntityData(e, FALSE))]

\* for entity in objs: self._process_entity(entity, is_block)
RECURSIVE ProcessObjects(_, _, _)
ProcessObjects(s, objs, is_block) ==
    IF objs = <<>> THEN s
    ELSE ProcessObjects(_process_entity(s, Head(objs), is_block), Tail(objs), is_block)

\* the loop over doc.blocks.items() of process_dxf, names in iteration order
RECURSIVE ProcessBlocks(_, _, _)
ProcessBlocks(s, doc, names) ==
    IF names = <<>> THEN s
    ELSE LET block_name == Head(names)
             s1 == IF ~StartsWithStar(block_name)
                   THEN ProcessObjects([s EXCEPT !.blocks = BlocksReset(@, block_name)],
                                       doc.blocks[block_name], TRUE)
                   ELSE s
         IN  ProcessBlocks(s1, doc, Tail(names))

AllCoordinates(entities) ==
    UNION {SeqToSet(entities[i].coordinates) : i \in 1..Len(entities)}

_calculate_bounds(s) ==
    IF s.entities = <<>> THEN s
    ELSE LET cs == AllCoordinates(s.entities)
             min_x == Min({Inf} \cup {c[1] : c \in cs})
             min_y == Min({Inf} \cup {c[2] : c \in cs})
             max_x == Max({-Inf} \cup {c[1] : c \in cs})
             max_y == Max({-Inf} \cup {c[2] : c \in cs})
             padding == Padding(max_x, min_x)
         IN  [s EXCEPT !.bounds =
                 [minX |-> FSub(Tenths(min_x), padding),
                  minY |-> FSub(Tenths(min_y), padding),
                  maxX |-> FAdd(Tenths(max_x), padding),
                  maxY |-> FAdd(Tenths(max_y), padding)]]

\* unit_map.get(insunits, 'm')
DetectedUnit(insunits) ==
    CASE insunits = 0 -> "unitless"
      [] insunits = 1 -> "in"
      [] insunits = 2 -> "ft"
      [] insunits = 3 -> "miles"
      [] insunits = 4 -> "mm"
      [] insunits = 5 -> "cm"
      [] insunits = 6 -> "m"
      [] insunits = 7 -> "km"
      [] insunits = 14 -> "m"
      [] OTHER -> "m"

_detect_units(s, doc) ==
    LET insunits == IF doc.insunits = NoInsUnits THEN 0 ELSE doc.insunits
        detected_unit == DetectedUnit(insunits)
        scale == CASE detected_unit = "mm" -> 10
                   [] detected_unit = "cm" -> 100
                   [] detected_unit = "in" -> 254
                   [] detected_unit = "ft" -> 3048
                   [] OTHER -> ScaleDen
    IN  [s EXCEPT !.scale = scale, !.units = "m"]

\* the dictionary _build_result returns, its layers listed in the order `order`
\* (list(self.layers): the iteration order of a set of strings)
_build_result(s, order) ==
    [entities |-> s.entities, bounds |-> s.bounds, scale |-> s.scale,
     units |-> s.units, layers |-> order, blocks |-> s.blocks,
     entity_count |-> Len(s.entities), layer_count |-> Cardinality(s.layers)]

\* _create_basic_floor_plan
WallLine(a, b) ==
    [type |-> "LINE", layer |-> "WALLS", coordinates |-> <<a, b>>,
     properties |-> NoProperties]

_create_basic_floor_plan(s, complexity) ==
    LET outer_walls ==
            << WallLine(<<0, 0>>, <<1000, 0>>), WallLine(<<1000, 0>>, <<1000, 800>>),
               WallLine(<<1000, 800>>, <<0, 800>>), WallLine(<<0, 800>>, <<0, 0>>) >>
        interior1 ==
            IF complexity > 10
            THEN << WallLine(<<400, 0>>, <<400, 800>>), WallLine(<<0, 400>>, <<1000, 400>>) >>
            ELSE <<>>
        interior2 ==
            IF complexity > 25
            THEN << WallLine(<<700, 400>>, <<700, 800>>), WallLine(<<400, 600>>, <<1000, 600>>) >>
            ELSE <<>>
    IN  [s EXCEPT !.entities = @ \o outer_walls \o interior1 \o interior2,
                  !.layers = @ \cup {"WALLS"},
                  !.bounds = [minX |-> 0, minY |-> 0, maxX |-> 10000, maxY |-> 8000]]

\* _analyze_dwg_structure, for a file that can be read: the processor after it
_analyze_dwg_structure(s, file_size) ==
    LET complexity == IF file_size \div 1000 < 50 THEN file_size \div 1000 ELSE 50
    IN  _create_basic_floor_plan(s, complexity)

\* _image_to_cad_coords; the images of the model make the divisions exact
_image_to_cad_coords(img_x, img_y, img_width, img_height) ==
    << (img_x * 100) \div img_width, ((img_height - img_y) * 100) \div img_height >>

\* math.sqrt, exact on the segments of the model
Sqrt(n) == CHOOSE k \in 0..n : k * k <= n /\ (k + 1) * (k + 1) > n

\* the body of the loop over the Hough segments of _extract_pdf_geometry
PdfLine(s, line, width, height) ==
    LET p1 == _image_to_cad_coords(line[1], line[2], width, height)
        p2 == _image_to_cad_coords(line[3], line[4], width, height)
        dx == p2[1] - p1[1]
        dy == p2[2] - p1[2]
        entity_data ==
            [type |-> "LINE", layer |-> "PDF_LINES", coordinates |-> <<p1, p2>>,
             properties |-> [length |-> Sqrt(dx * dx + dy * dy)]]
    IN  [s EXCEPT !.entities = Append(@, entity_data),
                  !.layers = @ \cup {"PDF_LINES"}]

RECURSIVE PdfLines(_, _, _, _)
PdfLines(s, lines, width, height) ==
    IF lines = <<>> THEN s
    ELSE PdfLines(PdfLine(s, Head(lines), width, height), Tail(lines), width, height)

\* f'ROOM_{i+1}' for the contour at position n = i + 1
RoomLayer(n) == "ROOM_" \o ToString(n)

\* the body of the loop over the contours of _extract_pdf_geometry
PdfContour(s, contour, n, width, height) ==
    IF contour.area > 5000 /\ Len(contour.approx) >= 3
    THEN LET coordinates ==
                 [j \in 1..Len(contour.approx) |->
                     _image_to_cad_coords(contour.approx[j][1], contour.approx[j][2],
                                          width, height)]
             entity_data ==
                 [type |-> "POLYLINE", layer |-> RoomLayer(n),
                  coordinates |-> coordinates,
                  properties |->
                      [area |-> ((((contour.area * s.scale) \div ScaleDen) * s.scale)
                                    \div ScaleDen),
                       closed |-> TRUE]]
         IN  [s EXCEPT !.entities = Append(@, entity_data),
                       !.layers = @ \cup {RoomLayer(n)}]
    ELSE s

RECURSIVE PdfContours(_, _, _, _, _)
PdfContours(s, contours, n, width, height) ==
    IF n > Len(contours) THEN s
    ELSE PdfContours(PdfContour(s, contours[n], n, width, height),
                     contours, n + 1, width, height)

\* _extract_pdf_geometry on an image in which the detectors found `lines` and
\* `contours`; HoughLinesP gives None when it finds no segment: lines = <<>>
_extract_pdf_geometry(s, image) ==
    LET s1 == IF image.lines = <<>> THEN s
              ELSE PdfLines(s, image.lines, image.width, image.height)
    IN  PdfContours(s1, image.contours, 1, image.width, image.height)

----------------------------------------------------------------------------
(* ImageProcessor *)

ImageProcessor_init ==
    [entities |-> <<>>, layers |-> {}, bounds |-> DefaultBounds,
     scale |-> ScaleDen, units |-> "m", stderr |-> <<>>]

\* has_parent: hierarchy[0][index][3] != -1
_determine_entity_type(contour) ==
    LET is_rect == Len(contour.approx) = 4
        has_parent == contour.parent # -1
    IN  IF is_rect /\ ~has_parent THEN "WALLS"
        ELSE IF has_parent THEN (IF contour.area < 500 THEN "DOORS" ELSE "RESTRICTED")
        ELSE "ROOMS"

\* the body of the loop over the contours of ImageProcessor._extract_geometry
ImageContour(s, contour, width, height) ==
    IF contour.area < 100 THEN s
    ELSE LET normalized_coords ==
                 [j \in 1..Len(contour.approx) |->
                     << (contour.approx[j][1] * 100) \div width,
                        (contour.approx[j][2] * 100) \div height >>]
             entity_type == _determine_entity_type(contour)
             entity ==
                 [type |-> "POLYLINE", layer |-> entity_type,
                  coordinates |-> normalized_coords,
                  properties |-> [closed |-> TRUE, area |-> contour.area]]
         IN  [s EXCEPT !.entities = Append(@, entity),
                       !.layers = @ \cup {entity_type}]

RECURSIVE _extract_geometry(_, _, _, _)
_extract_geometry(s, contours, width, height) ==
    IF contours = <<>> THEN s
    ELSE _extract_geometry(ImageContour(s, Head(contours), width, height),
                           Tail(contours), width, height)

\* ImageProcessor._calculate_bounds without its early return on an empty list
ImageProcessor_calculate_bounds_no_guard(s) ==
    LET cs == AllCoordinates(s.entities)
        min_x == Min({Inf} \cup {c[1] : c \in cs})
        min_y == Min({Inf} \cup {c[2] : c \in cs})
        max_x == Max({-Inf} \cup {c[1] : c \in cs})
        max_y == Max({-Inf} \cup {c[2] : c \in cs})
        padding == Padding(max_x, min_x)
    IN  [s EXCEPT !.bounds =
            [minX |-> FSub(Tenths(min_x), padding),
             minY |-> FSub(Tenths(min_y), padding),
             maxX |-> FAdd(Tenths(max_x), padding),
             maxY |-> FAdd(Tenths(max_y), padding)]]

ImageProcessor_calculate_bounds(s) ==
    IF s.entities = <<>> THEN s
    ELSE LET cs == AllCoordinates(s.entities)
             min_x == Min({Inf} \cup {c[1] : c \in cs})
             min_y == Min({Inf} \cup {c[2] : c \in cs})
             max_x == Max({-Inf} \cup {c[1] : c \in cs})
             max_y == Max({-Inf} \cup {c[2] : c \in cs})
             padding == Padding(max_x, min_x)
         IN  [s EXCEPT !.bounds =
                 [minX |-> FSub(Tenths(min_x), padding),
                  minY |-> FSub(Tenths(min_y), padding),
                  maxX |-> FAdd(Tenths(max_x), padding),
                  maxY |-> FAdd(Tenths(max_y), padding)]]

ImageProcessor_build_result(s, order) ==
    [entities |-> s.entities, bounds |-> s.bounds, scale |-> s.scale,
     units |-> s.units, layers |-> order, blocks |-> NoBlocks,
     entity_count |-> Len(s.entities), layer_count |-> Cardinality(s.layers)]

----------------------------------------------------------------------------
(* The sources a call is given *)

NoDocument == [msp |-> <<>>, blocks |-> [b \in BlockNames |-> <<>>], insunits |-> NoInsUnits]

\* a DXF file: ezdxf.readfile succeeds ("ok"), raises DXFStructureError and
\* recover.readfile succeeds ("recovered"), or no document can be read ("fail")
DxfSources ==
    [kind : {"dxf"}, open : {"ok", "recovered"}, doc : Documents]
    \cup [kind : {"dxf"}, open : {"fail"}, doc : {NoDocument}]

\* a DWG file: ezdxf.readfile and doc.modelspace() succeed ("ok") or raise
\* ("fail"); then the file itself can be read or not, and has a size in bytes
DwgDocuments ==
    {d \in Documents : \A b \in BlockNames : d.blocks[b] = <<>>}
FileSizes == {500, 11000, 26000, 80000}
DwgSources ==
    [kind : {"dwg"}, open : {"ok"}, doc : DwgDocuments, readable : {TRUE},
     file_size : {26000}]
    \cup [kind : {"dwg"}, open : {"fail"}, doc : {NoDocument}, readable : BOOLEAN,
          file_size : FileSizes]

\* what the detectors find in a raster image of 200 x 100 pixels
ImageWidth == 2 * 100
ImageHeight == 1 * 100
SegmentPool == {<<0, 0, 200, 0>>, <<20, 90, 80, 10>>}
PdfContourPool ==
    {[area |-> 6000, approx |-> <<<<0, 0>>, <<100, 0>>, <<100, 60>>, <<0, 60>>>>],
     [area |-> 5000, approx |-> <<<<0, 0>>, <<100, 0>>, <<100, 50>>, <<0, 50>>>>],
     [area |-> 7000, approx |-> <<<<0, 0>>, <<140, 100>>>>]}
ImageContourPool ==
    {[area |-> 6000, approx |-> <<<<0, 0>>, <<100, 0>>, <<100, 60>>, <<0, 60>>>>,
      parent |-> -1],
     [area |-> 50, approx |-> <<<<0, 0>>, <<10, 0>>, <<10, 5>>, <<0, 5>>>>,
      parent |-> -1],
     [area |-> 300, approx |-> <<<<10, 10>>, <<40, 10>>, <<40, 20>>, <<10, 20>>>>,
      parent |-> 0],
     [area |-> 800, approx |-> <<<<10, 10>>, <<50, 10>>, <<50, 50>>>>,
      parent |-> 0],
     [area |-> 900, approx |-> <<<<100, 50>>, <<160, 50>>, <<130, 80>>>>,
      parent |-> -1]}

\* a PDF file: convert_from_path raises ("fail") or yields `pages` page images,
\* of which the first is searched
PdfSources ==
    [kind : {"pdf"}, open : {"ok"}, pages : {1, 2},
     image : [width : {ImageWidth}, height : {ImageHeight},
              lines : SeqsUpTo(SegmentPool, MaxSegments),
              contours : SeqsUpTo(PdfContourPool, MaxContours)]]
    \cup [kind : {"pdf"}, open : {"ok", "fail"}, pages : {0},
          image : {[width |-> ImageWidth, height |-> ImageHeight,
                    lines |-> <<>>, contours |-> <<>>]}]

\* an image file: cv2.imread yields None (decoded = FALSE) or the image
ImageSources ==
    [kind : {"image"}, decoded : {TRUE}, width : {ImageWidth}, height : {ImageHeight},
     contours : SeqsUpTo(ImageContourPool, MaxContours)]
    \cup [kind : {"image"}, decoded : {FALSE}, width : {ImageWidth},
          height : {ImageHeight}, contours : {<<>>}]

\* what a call gives back
Returned(result, s) == [status |-> "result", result |-> result, stderr |-> s.stderr]
Raised(message, s) == [status |-> "error", message |-> message, stderr |-> s.stderr]

\* the sources the next call on the current processor object may be given: any
\* of `all` for its first call; with reuse, the same source again, up to
\* MaxCalls calls
CallSources(reuse, kind, all) ==
    IF calls = 0 THEN all
    ELSE IF reuse /\ calls < MaxCalls /\ inp.kind = kind THEN {inp}
    ELSE {}

----------------------------------------------------------------------------
(* Actions *)

Init ==
    /\ cls = "none"
    /\ self = CADProcessor_init
    /\ calls = 0
    /\ inp = [kind |-> "none"]
    /\ out = [status |-> "none"]

\* main of cad_processor.py: processor = CADProcessor()
NewCADProcessor ==
    /\ cls' = "CADProcessor"
    /\ self' = CADProcessor_init
    /\ calls' = 0
    /\ inp' = [kind |-> "none"]
    /\ out' = [status |-> "none"]

process_dxf(reuse) ==
    \E src \in CallSources(reuse, "dxf", DxfSources) :
        /\ cls = "CADProcessor"
        /\ inp' = src
        /\ calls' = calls + 1
        /\ cls' = cls
        /\ IF src.open = "fail"
           THEN /\ self' = self
                /\ out' = Raised("Failed to process DXF file", self)
           ELSE LET s1 == ProcessBlocks(self, src.doc, BlockOrder)
                    s2 == ProcessObjects(s1, src.doc.msp, FALSE)
                    s3 == _calculate_bounds(s2)
                    s4 == _detect_units(s3, src.doc)
                IN  /\ self' = s4
                    /\ \E order \in Orders(s4.layers) :
                          out' = Returned(_build_result(s4, order), s4)

process_dwg(reuse) ==
    \E src \in CallSources(reuse, "dwg", DwgSources) :
        /\ cls = "CADProcessor"
        /\ inp' = src
        /\ calls' = calls + 1
        /\ cls' = cls
        /\ IF src.open = "ok"
           THEN LET s2 == ProcessObjects(self, src.doc.msp, FALSE)
                    s3 == _calculate_bounds(s2)
                    s4 == _detect_units(s3, src.doc)
                IN  /\ self' = s4
                    /\ \E order \in Orders(s4.layers) :
                          out' = Returned(_build_result(s4, order), s4)
           ELSE IF src.readable
           THEN LET s1 == _analyze_dwg_structure(self, src.file_size)
                IN  /\ self' = s1
                    /\ \E order \in Orders(s1.layers) :
                          out' = Returned(_build_result(s1, order), s1)
           ELSE /\ self' = self
                /\ out' = Raised("Failed to process DWG file", self)

process_pdf(reuse) ==
    \E src \in CallSources(reuse, "pdf", PdfSources) :
        /\ cls = "CADProcessor"
        /\ inp' = src
        /\ calls' = calls + 1
        /\ cls' = cls
        /\ IF src.open = "fail" \/ src.pages = 0
           THEN /\ self' = self
                /\ out' = Raised("Failed to process PDF file", self)
           ELSE LET s1 == _extract_pdf_geometry(self, src.image)
                IN  /\ self' = s1
                    /\ \E order \in Orders(s1.layers) :
                          out' = Returned(_build_result(s1, order), s1)

\* main of image_processor.py: processor = ImageProcessor()
NewImageProcessor ==
    /\ cls' = "ImageProcessor"
    /\ self' = ImageProcessor_init
    /\ calls' = 0
    /\ inp' = [kind |-> "none"]
    /\ out' = [status |-> "none"]

process_image(reuse) ==
    \E src \in CallSources(reuse, "image", ImageSources) :
        /\ cls = "ImageProcessor"
        /\ inp' = src
        /\ calls' = calls + 1
        /\ cls' = cls
        /\ IF ~src.decoded
           THEN /\ self' = self
                /\ out' = Raised("Failed to process image file", self)
           ELSE LET s1 == _extract_geometry(self, src.contours, src.width, src.height)
                    s2 == ImageProcessor_calculate_bounds(s1)
                IN  /\ self' = s2
                    /\ \E order \in Orders(s2.layers) :
                          out' = Returned(ImageProcessor_build_result(s2, order), s2)

\* the scripts as their main functions run them: a new processor object for
\* every extraction
Next ==
    \/ NewCADProcessor
    \/ NewImageProcessor
    \/ process_dxf(FALSE)
    \/ process_dwg(FALSE)
    \/ process_pdf(FALSE)
    \/ process_image(FALSE)

Spec == Init /\ [][Next]_vars

\* the classes as a library: a processor object may be given the same source
\* again
NextReuse ==
    \/ NewCADProcessor
    \/ NewImageProcessor
    \/ process_dxf(TRUE)
    \/ process_dwg(TRUE)
    \/ process_pdf(TRUE)
    \/ process_image(TRUE)

SpecReuse == Init /\ [][NextReuse]_vars

----------------------------------------------------------------------------
(* Properties *)

HasResult == out.status = "result"

\* the last call was a vector extraction whose document could be read
VectorParsed == inp.kind \in {"dxf", "dwg"} /\ inp.open # "fail"

\* C1: in every Result of a vector extraction, the bounds contain
\* [cx - r, cx + r] x [cy - r, cy + r] for every top-level circle or arc
\* with center (cx, cy) and radius r >= 0.  (Bounds are in tenths.)
C1_BoundsContainCircles ==
    (HasResult /\ VectorParsed) =>
        \A i \in 1..Len(out.result.entities) :
            LET e == out.result.entities[i]
                b == out.result.bounds
            IN  (e.type \in {"CIRCLE", "ARC"} /\ e.properties.radius >= 0) =>
                    /\ b.minX <= 10 * (e.coordinates[1][1] - e.properties.radius)
                    /\ b.maxX >= 10 * (e.coordinates[1][1] + e.properties.radius)
                    /\ b.minY <= 10 * (e.coordinates[1][2] - e.properties.radius)
                    /\ b.maxY >= 10 * (e.coordinates[1][2] + e.properties.radius)

\* C2: the layer list of every Result holds exactly the distinct layer values
\* of the entities of the Result's entity list.
C2_LayersAreEntityLayers ==
    HasResult =>
        SeqToSet(out.result.layers) =
            {out.result.entities[i].layer : i \in 1..Len(out.result.entities)}

\* the kinds the specification lists as supported
SupportedTypes ==
    {"LINE", "LWPOLYLINE", "POLYLINE", "CIRCLE", "ARC", "TEXT", "MTEXT", "INSERT",
     "HATCH", "DIMENSION"}

\* C3: an object of an unsupported type adds no entity to the entity list nor
\* to any block list, and every supported, well-formed object of the model
\* space is still extracted.
C3_UnsupportedSkipped ==
    (HasResult /\ VectorParsed) =>
        /\ \A i \in 1..Len(out.result.entities) :
              out.result.entities[i].type \in SupportedTypes
        /\ \A k \in DOMAIN out.result.blocks :
              \A i \in 1..Len(out.result.blocks[k]) :
                  out.result.blocks[k][i].type \in SupportedTypes
        /\ \A j \in 1..Len(inp.doc.msp) :
              (inp.doc.msp[j].type \in SupportedTypes /\ ~Raises(inp.doc.msp[j])) =>
                  \E i \in 1..Len(out.result.entities) :
                      out.result.entities[i] = EntityData(inp.doc.msp[j], FALSE)

WellFormed(o) == RequiredAttrs(o.type) \subseteq o.has

\* the named blocks of the document of the last call that process_dxf visits
VisitedBlocks ==
    IF inp.kind = "dxf" THEN {b \in BlockNames : ~StartsWithStar(b)} ELSE {}

\* the malformed objects the last call met
MalformedMet ==
    Len(SelectSeq(inp.doc.msp, Raises))
    + (IF VisitedBlocks = {} THEN 0
       ELSE Len(SelectSeq(inp.doc.blocks["DOOR"], Raises)))

C5_BlocksByName ==
    (HasResult /\ inp.kind = "dxf") =>
        /\ DOMAIN out.result.blocks = {b \in BlockNames : ~StartsWithStar(b)}
        /\ \A b \in DOMAIN out.result.blocks :
              LET wf == SelectSeq(inp.doc.blocks[b], WellFormed)
              IN  out.result.blocks[b] = [i \in 1..Len(wf) |-> EntityData(wf[i], TRUE)]

\* the source of the last call could be opened and parsed
SourceParsed ==
    CASE inp.kind \in {"dxf", "dwg"} -> inp.open # "fail"
      [] inp.kind = "pdf" -> inp.open = "ok" /\ inp.pages > 0
      [] inp.kind = "image" -> inp.decoded
      [] OTHER -> FALSE

\* C6: a call whose source cannot be opened or parsed returns no Result.
C6_AllOrNothing == HasResult => SourceParsed

\* the table of the claim: meters per source unit, in 1/ScaleDen
MetersPerUnit(code) ==
    CASE code = 0 -> 10000
      [] code = 1 -> 254
      [] code = 2 -> 3048
      [] code = 3 -> 16093440
      [] code = 4 -> 10
      [] code = 5 -> 100
      [] code = 6 -> 10000
      [] code = 7 -> 10000000

\* C7: for a declared unit code of the table, the returned scale factor is the
\* multiplier from one source unit to meters.
C7_ScaleIsMetersPerUnit ==
    (HasResult /\ VectorParsed /\ inp.doc.insunits \in 0..7) =>
        out.result.scale = MetersPerUnit(inp.doc.insunits)

\* the label of the declared unit: the table's label, or the literal code
DeclaredLabel(code) ==
    IF code \in 0..7 THEN DetectedUnit(code) ELSE ToString(code)

\* C8: for a declared unit code outside the table the Result has factor 1.0
\* and carries the literal code as unit label; for every declared code the
\* Result carries the detected label, not the canonical unit in its place.
C8_DetectedLabelKept ==
    (HasResult /\ VectorParsed /\ inp.doc.insunits # NoInsUnits) =>
        /\ inp.doc.insunits \notin 0..7 => out.result.scale = ScaleDen
        /\ out.result.units = DeclaredLabel(inp.doc.insunits)

\* C9: two extractions of the same source give the same Result, also on the
\* same processor object.
C9_Deterministic ==
    [][(out.status = "result" /\ out'.status = "result" /\ inp' = inp)
          => out'.result = out.result]_vars

\* C10: an extraction that finds no geometry (a blank raster image, a vector
\* document without top-level entity) returns a Result with no entity and the
\* default bounds (0, 0, 100, 100), here in tenths.
NoGeometry ==
    CASE inp.kind \in {"dxf", "dwg"} -> inp.open # "fail" /\ inp.doc.msp = <<>>
      [] inp.kind = "pdf" ->
            /\ inp.open = "ok" /\ inp.pages > 0
            /\ inp.image.lines = <<>> /\ inp.image.contours = <<>>
      [] inp.kind = "image" -> inp.decoded /\ inp.contours = <<>>
      [] OTHER -> FALSE

C10_NoGeometryIsValid ==
    NoGeometry =>
        /\ HasResult
        /\ out.result.entities = <<>>
        /\ out.result.entity_count = 0
        /\ out.result.bounds = [minX |-> 0, minY |-> 0, maxX |-> 1000, maxY |-> 1000]

\* the Result of a blank image
C10_Witness ==
    /\ inp.kind = "image" /\ inp.decoded /\ inp.contours = <<>>
    /\ HasResult /\ out.result.layers = <<>>

\* a LINE object that can supply both of its points
LineWithBothPoints(o) == o.type = "LINE" /\ {"start", "end"} \subseteq o.has

\* C11: in every Result, of whichever path, every entity of kind line (in the
\* entity list and in the block lists) has exactly 2 coordinate points, and a
\* vector document yields as many line entities as its model space holds LINE
\* objects with both points: a LINE lacking a point yields none.
C11_LinesHaveTwoPoints ==
    HasResult =>
        /\ \A i \in 1..Len(out.result.entities) :
              out.result.entities[i].type = "LINE" =>
                  Len(out.result.entities[i].coordinates) = 2
        /\ \A k \in DOMAIN out.result.blocks :
              \A i \in 1..Len(out.result.blocks[k]) :
                  out.result.blocks[k][i].type = "LINE" =>
                      Len(out.result.blocks[k][i].coordinates) = 2
        /\ VectorParsed =>
              Cardinality({i \in 1..Len(out.result.entities) :
                              out.result.entities[i].type = "LINE"})
                  = Len(SelectSeq(inp.doc.msp, LineWithBothPoints))

\* a Result with a line entity, from a model space that also held a LINE
\* without its end point
C11_Witness ==
    /\ HasResult /\ VectorParsed
    /\ \E j \in 1..Len(inp.doc.msp) :
          inp.doc.msp[j].type = "LINE" /\ ~LineWithBothPoints(inp.doc.msp[j])
    /\ \E i \in 1..Len(out.result.entities) : out.result.entities[i].type = "LINE"

\* the processor after extracting the model space of the last document alone,
\* as if the document had no block
TopLevelAlone ==
    _calculate_bounds(ProcessObjects(CADProcessor_init, inp.doc.msp, FALSE))

\* C12: the blocks of a document have no effect on the top-level entity list
\* nor on the bounds: both are what the model space alone gives, and no entity
\* of the list is a block member.
C12_BoundsFromTopLevelOnly ==
    (HasResult /\ inp.kind = "dxf") =>
        /\ out.result.entities = TopLevelAlone.entities
        /\ out.result.bounds = TopLevelAlone.bounds
        /\ \A i \in 1..Len(out.result.entities) :
              ~out.result.entities[i].is_block

\* a Result with top-level entities whose document has, in its named block,
\* a line at x = -20, left of the returned bounds
C12_Witness ==
    /\ HasResult /\ inp.kind = "dxf"
    /\ Len(out.result.entities) >= 1
    /\ \E j \in 1..Len(inp.doc.blocks["DOOR"]) : inp.doc.blocks["DOOR"][j] = LineDoor
    /\ "DOOR" \in DOMAIN out.result.blocks
    /\ Len(out.result.blocks["DOOR"]) >= 1
    /\ out.result.bounds.minX > 10 * (-20)

\* the remapping of the claim: X scaled as x / W * 100, Y flipped as
\* (H - y) / H * 100
CanonicalPoint(p, W, H) == << (p[1] * 100) \div W, ((H - p[2]) * 100) \div H >>

CanonicalPoints(ps, W, H) == [j \in 1..Len(ps) |-> CanonicalPoint(ps[j], W, H)]

\* the contours each raster path turns into an entity
ImageKept(c) == c.area >= 100
PdfKept(c) == c.area > 5000 /\ Len(c.approx) >= 3

\* C13: every raster path (PDF page, image file) remaps each pixel (x, y) of an
\* image of width W and height H to (x / W * 100, (H - y) / H * 100): the
\* coordinates of every entity are the remapped pixels of its segment or contour.
C13_VerticalFlip ==
    HasResult =>
        /\ inp.kind = "image" =>
              LET kept == SelectSeq(inp.contours, ImageKept)
              IN  /\ Len(out.result.entities) = Len(kept)
                  /\ \A i \in 1..Len(kept) :
                        out.result.entities[i].coordinates =
                            CanonicalPoints(kept[i].approx, inp.width, inp.height)
        /\ inp.kind = "pdf" =>
              LET lines == inp.image.lines
                  kept == SelectSeq(inp.image.contours, PdfKept)
                  W == inp.image.width
                  H == inp.image.height
              IN  /\ Len(out.result.entities) = Len(lines) + Len(kept)
                  /\ \A i \in 1..Len(lines) :
                        out.result.entities[i].coordinates =
                            << CanonicalPoint(<<lines[i][1], lines[i][2]>>, W, H),
                               CanonicalPoint(<<lines[i][3], lines[i][4]>>, W, H) >>
                  /\ \A i \in 1..Len(kept) :
                        out.result.entities[Len(lines) + i].coordinates =
                            CanonicalPoints(kept[i].approx, W, H)

====
